---- MODULE Spec2Model ----
(***************************************************************************)
(* The ride-matching and settlement engine of src/ride_share2.py:          *)
(* RideMatching.find_driver, Rider.request_ride / load_cash,               *)
(* Driver.accept_ride / update_location / add_rating, Vehicle.start_drive, *)
(* Ride.start_ride / end_ride / calculate_fare.                            *)
(*                                                                         *)
(* Money is kept in hundredths (a fare of 80.78 is 8078); coordinates are  *)
(* integers.  Objects are named by their index: a driver by its position   *)
(* in the pool (the list RideMatching iterates over), a Ride by the order  *)
(* of its construction.  A Vehicle is owned by exactly one driver and is   *)
(* modelled by its owner's fields vehicle_type, rate and status.           *)
(*                                                                         *)
(* drivers, riders  the Driver and Rider objects                           *)
(* rides            the Ride objects, in the order of their construction   *)
(* clock            what the next datetime.now() returns                   *)
(* printed          what the last call printed ("" when it printed nothing)*)
(*                                                                         *)
(* The other programs of the repository keep their state in one object     *)
(* each; a behaviour runs one program and leaves the others absent:        *)
(*                                                                         *)
(* system           the RideShareSystem of src/ride_share.py               *)
(* library          the Library of src/libary_management.py                *)
(* restaurant       the Restaurant of src/resturant.py                     *)
(* eshop            the EShop of src/shopping.py                           *)
(***************************************************************************)
EXTENDS Integers, Sequences, FiniteSets, TLC

VARIABLES drivers, riders, rides, clock, printed,
          system, library, restaurant, eshop

vars == <<drivers, riders, rides, clock, printed,
          system, library, restaurant, eshop>>

\* the state of the ride engine, and the objects of the other programs
engine == <<drivers, riders, rides, clock, printed>>
programs == <<system, library, restaurant, eshop>>

\* the object of a program that is not run
Absent == "absent"
ProgramsAbsent ==
    /\ system = Absent
    /\ library = Absent
    /\ restaurant = Absent
    /\ eshop = Absent

\* the ride engine when another program is run: nothing constructed
EngineAbsent ==
    /\ drivers = <<>>
    /\ riders = <<>>
    /\ rides = <<>>
    /\ clock = 1
    /\ printed = ""

---------------------------------------------------------------------------
(* Bounds of the model *)

\* datetime.now() is read at most MaxClock times in a behaviour
MaxClock == 2
\* load_cash is not applied to a wallet above MaxWallet (hundredths)
MaxWallet == 4999

DriverIds == 1..2
RiderIds == 1..2

\* the coordinates drivers are placed at and moved to
Points == {<<3, 0>>, <<0, 3>>}
\* the coordinates the riders are constructed at, rider by rider
RiderPoints == <<(<<0, 0>>), (<<3, 4>>)>>
\* the destinations riders ask for
Destinations == {<<3, 4>>, <<0, 3>>}
\* initial_amount of the riders, rider by rider, and the amounts passed to
\* load_cash (hundredths)
InitialAmounts == <<5000, 0>>
LoadAmounts == {-1000, 5000}
\* the ratings passed to end_ride
Ratings == {4, 6}

---------------------------------------------------------------------------
(* Program constants *)

\* None, for a reference (no ride) and for a timestamp (not recorded)
None == 0
\* float('inf') as the initial min_distance: above every squared distance
Inf == 1000000

\* Car, Bike, CNG: vehicle_type and rate
Car == [vehicle_type |-> "car", rate |-> 15]
Bike == [vehicle_type |-> "bike", rate |-> 8]
CNG == [vehicle_type |-> "cng", rate |-> 5]

\* the vehicles the drivers of the pool are constructed with, driver by driver
Vehicles == <<Car, Bike>>

---------------------------------------------------------------------------
(* Geometry and fare *)

\* floor of the square root of n, by bisection on lo..hi (lo^2 <= n < hi^2)
RECURSIVE Bisect(_, _, _)
Bisect(n, lo, hi) ==
    IF hi - lo <= 1 THEN lo
    ELSE LET mid == (lo + hi) \div 2
         IN  IF mid * mid <= n THEN Bisect(n, mid, hi) ELSE Bisect(n, lo, mid)

ISqrt(n) == Bisect(n, 0, 32768)

\* math.dist(a, b) is the square root of DistSq(a, b); the square root is
\* monotonic, so two distances compare as their squares do
DistSq(a, b) ==
    (a[1] - b[1]) * (a[1] - b[1]) + (a[2] - b[2]) * (a[2] - b[2])

\* a fare cut off after two decimals instead of rounded
calculate_fareTruncated(start_location, end_location, rate) ==
    LET n == DistSq(start_location, end_location)
        x == 100 * rate
    IN  ISqrt(x * x * n)

\* a fare over the sum of the coordinate differences instead of math.dist
calculate_fareManhattan(start_location, end_location, rate) ==
    LET dx == start_location[1] - end_location[1]
        dy == start_location[2] - end_location[2]
    IN  100 * rate * ((IF dx < 0 THEN -dx ELSE dx) + (IF dy < 0 THEN -dy ELSE dy))

\* Ride.calculate_fare: round(math.dist(start, end) * rate, 2), in hundredths.
\* round(100 * rate * sqrt(n)) = floor((floor(sqrt(4 * (100 * rate)^2 * n)) + 1) / 2)
calculate_fare(start_location, end_location, rate) ==
    LET n == DistSq(start_location, end_location)
        x == 100 * rate
    IN  (ISqrt(4 * x * x * n) + 1) \div 2

---------------------------------------------------------------------------
(* RideMatching.find_driver: the scan *)

\* a scan that lets a later driver at the same distance replace the earlier one
CloserOrEqual(dist, min_distance) == dist <= min_distance

\* line 130: if dist < min_distance
Closer(dist, min_distance) == dist < min_distance

\* a scan that never looks at the vehicle's status
IsAvailableAlways(driver) == TRUE

\* line 128: if driver.vehicle.status == 'available'
IsAvailable(driver) == driver.status = "available"

\* the for loop of find_driver from pool position i on, holding closest_driver
\* and min_distance; returns closest_driver (None when no driver was taken)
RECURSIVE Scan(_, _, _, _, _)
Scan(pool, rider_location, i, closest_driver, min_distance) ==
    IF i > Cardinality(DOMAIN pool) THEN closest_driver
    ELSE LET dist == DistSq(pool[i].current_location, rider_location)
         IN  IF IsAvailable(pool[i]) /\ Closer(dist, min_distance)
             THEN Scan(pool, rider_location, i + 1, i, dist)
             ELSE Scan(pool, rider_location, i + 1, closest_driver, min_distance)

closest(pool, rider_location) == Scan(pool, rider_location, 1, None, Inf)

---------------------------------------------------------------------------
(* Initial state: the objects as constructed *)

\* Driver.__init__ with Vehicle.__init__ and User.__init__
NewDriver(location, v) ==
    [current_location |-> location, vehicle_type |-> v.vehicle_type,
     rate |-> v.rate, status |-> "available", wallet |-> 0,
     rating |-> <<>>, current_ride |-> None]

\* Rider.__init__
NewRider(location, initial_amount) ==
    [current_location |-> location, wallet |-> initial_amount,
     current_ride |-> None]

Init ==
    /\ \E location \in [DriverIds -> Points] :
           drivers = [d \in DriverIds |-> NewDriver(location[d], Vehicles[d])]
    /\ riders = [r \in RiderIds |-> NewRider(RiderPoints[r], InitialAmounts[r])]
    /\ rides = <<>>
    /\ clock = 1
    /\ printed = ""
    /\ ProgramsAbsent

---------------------------------------------------------------------------
(* Operations *)

\* a load_cash that adds whatever amount it is given
load_cashAnyAmount(r, amount) ==
    /\ riders[r].wallet <= MaxWallet
    /\ riders' = [riders EXCEPT ![r].wallet = @ + amount]
    /\ printed' = ""
    /\ UNCHANGED <<drivers, rides, clock>>

\* Rider.load_cash
load_cash(r, amount) ==
    /\ riders[r].wallet <= MaxWallet
    /\ riders' = IF amount > 0
                 THEN [riders EXCEPT ![r].wallet = @ + amount]
                 ELSE riders
    /\ printed' = ""
    /\ UNCHANGED <<drivers, rides, clock>>

\* a Ride constructed with its two locations exchanged
NewRideSwapped(start_location, end_location, r, d) ==
    [start_location |-> end_location, end_location |-> start_location,
     driver |-> None, rider |-> r, vehicle |-> d,
     start_time |-> None, end_time |-> None,
     estimated_fare |-> calculate_fare(start_location, end_location, drivers[d].rate)]

\* Ride.__init__ with calculate_fare
NewRide(start_location, end_location, r, d) ==
    [start_location |-> start_location, end_location |-> end_location,
     driver |-> None, rider |-> r, vehicle |-> d,
     start_time |-> None, end_time |-> None,
     estimated_fare |-> calculate_fare(start_location, end_location, drivers[d].rate)]

\* Driver.accept_ride with Ride.set_driver: driver d takes the ride that is
\* being constructed as ride k
accept_ride(d, k, ride) ==
    /\ drivers' = [drivers EXCEPT ![d].current_ride = k]
    /\ rides' = Append(rides, [ride EXCEPT !.driver = d])

\* what RideMatching.find_driver returns for a request of rider r: the new
\* Ride, or None
found_ride(r) ==
    IF closest(drivers, riders[r].current_location) # None
    THEN Len(rides) + 1
    ELSE None

\* RideMatching.find_driver for RideRequest(r, destination)
find_driver(r, destination) ==
    LET rider_location == riders[r].current_location
        closest_driver == closest(drivers, rider_location)
    IN  IF closest_driver # None
        THEN /\ accept_ride(closest_driver, Len(rides) + 1,
                    NewRide(rider_location, destination, r, closest_driver))
             /\ printed' = "Ride matched"
        ELSE /\ printed' = "No available driver found."
             /\ UNCHANGED <<drivers, rides>>

\* a request_ride that does not look at the rider's current_ride
request_rideUnguarded(r, destination) ==
    /\ find_driver(r, destination)
    /\ riders' = [riders EXCEPT ![r].current_ride = found_ride(r)]
    /\ UNCHANGED clock

\* Rider.request_ride
request_ride(r, destination) ==
    IF riders[r].current_ride = None
    THEN /\ find_driver(r, destination)
         /\ riders' = [riders EXCEPT ![r].current_ride = found_ride(r)]
         /\ UNCHANGED clock
    ELSE /\ printed' = ""
         /\ UNCHANGED <<drivers, riders, rides, clock>>

\* sum(self.rating)
RECURSIVE sum(_)
sum(rating) ==
    IF rating = <<>> THEN 0 ELSE Head(rating) + sum(Tail(rating))

\* an average taken without looking whether there is a rating at all
avg_ratingUnguarded(rating) ==
    [numeric |-> TRUE, num |-> sum(rating), den |-> Len(rating)]

\* avg_rating of Driver.display_profile: the quotient num / den of the sum
\* and the count of the ratings, or the text "N/A"
avg_rating(rating) ==
    IF rating # <<>>
    THEN [numeric |-> TRUE, num |-> sum(rating), den |-> Len(rating)]
    ELSE [numeric |-> FALSE, text |-> "N/A"]

\* Driver.update_location
update_location(d, location) ==
    /\ drivers' = [drivers EXCEPT ![d].current_location = location]
    /\ printed' = ""
    /\ UNCHANGED <<riders, rides, clock>>

\* Car.start_drive, Bike.start_drive, CNG.start_drive
start_drive(d) ==
    /\ drivers' = [drivers EXCEPT ![d].status = "unavailable"]
    /\ printed' = ""
    /\ UNCHANGED <<riders, rides, clock>>

\* a start_ride that prices the ride again from where its driver now stands
start_rideRepriced(k) ==
    /\ k \in 1..Len(rides)
    /\ clock <= MaxClock
    /\ rides' = [rides EXCEPT
                    ![k].start_time = clock,
                    ![k].estimated_fare =
                        calculate_fare(drivers[rides[k].driver].current_location,
                                       rides[k].end_location,
                                       drivers[rides[k].driver].rate)]
    /\ clock' = clock + 1
    /\ printed' = ""
    /\ UNCHANGED <<drivers, riders>>

\* Ride.start_ride
start_ride(k) ==
    /\ k \in 1..Len(rides)
    /\ clock <= MaxClock
    /\ rides' = [rides EXCEPT ![k].start_time = clock]
    /\ clock' = clock + 1
    /\ printed' = ""
    /\ UNCHANGED <<drivers, riders>>

\* a settlement that never looks at the wallet
CanPayAlways(wallet, fare) == TRUE

\* a settlement that asks for a positive balance, not for the fare
CanPayIfPositive(wallet, fare) == wallet > 0

\* a settlement that refuses a wallet holding exactly the fare
CanPayStrict(wallet, fare) == wallet > fare

\* line 103: if self.rider.wallet >= fare
CanPay(wallet, fare) == wallet >= fare

\* Ride.end_ride, with Driver.add_rating
end_ride(k, rating) ==
    /\ k \in 1..Len(rides)
    /\ clock <= MaxClock
    /\ clock' = clock + 1
    /\ rides' = [rides EXCEPT ![k].end_time = clock]
    /\ LET fare == rides[k].estimated_fare
           r == rides[k].rider
           d == rides[k].driver
       IN  IF CanPay(riders[r].wallet, fare)
           THEN /\ riders' = [riders EXCEPT ![r].wallet = @ - fare]
                /\ drivers' = [drivers EXCEPT ![d].wallet = @ + fare,
                                              ![d].rating = Append(@, rating)]
                /\ printed' = "Ride ended"
           ELSE /\ printed' = "Not enough balance!"
                /\ UNCHANGED <<drivers, riders>>

\* what Ride.end_ride returns to its caller for a rider holding wallet and a
\* ride of that fare: neither branch has a return statement
end_ride_returns(wallet, fare) ==
    IF CanPay(wallet, fare) THEN None ELSE None

Next ==
    \/ \E r \in RiderIds, amount \in LoadAmounts :
          load_cash(r, amount) /\ UNCHANGED programs
    \/ \E r \in RiderIds, destination \in Destinations :
          request_ride(r, destination) /\ UNCHANGED programs
    \/ \E d \in DriverIds, location \in Points :
          update_location(d, location) /\ UNCHANGED programs
    \/ \E d \in DriverIds : start_drive(d) /\ UNCHANGED programs
    \/ \E k \in 1..Len(rides) : start_ride(k) /\ UNCHANGED programs
    \/ \E k \in 1..Len(rides), rating \in Ratings :
          end_ride(k, rating) /\ UNCHANGED programs

Spec == Init /\ [][Next]_vars

---------------------------------------------------------------------------
(* The test run of __main__: one rider at (10, 10), driver 1 at (11, 10),  *)
(* driver 2 somewhere; the rider requests a ride, the ride is started and  *)
(* ended.  The run of the source is the one with wallet 500, a car and a   *)
(* bike, driver 2 at (20, 30), destination (15, 12) and rating 5.          *)

\* initial_amount of the rider (hundredths)
TestRunAmounts == {50000, 5000, 0}
\* where driver 2 stands
TestRunPoints == {<<20, 30>>, <<11, 10>>, <<10, 10>>}
\* the vehicles a driver is constructed with
TestRunVehicles == {Car, Bike, CNG}
\* the destinations asked for
TestRunDestinations == {<<15, 12>>, <<10, 10>>, <<13, 14>>, <<12, 11>>}
\* the ratings passed to end_ride
TestRunRatings == {5, 1}

TestRunInit ==
    /\ \E location \in TestRunPoints, v \in [DriverIds -> TestRunVehicles] :
           drivers = <<NewDriver(<<11, 10>>, v[1]), NewDriver(location, v[2])>>
    /\ \E initial_amount \in TestRunAmounts :
           riders = <<NewRider(<<10, 10>>, initial_amount)>>
    /\ rides = <<>>
    /\ clock = 1
    /\ printed = ""
    /\ ProgramsAbsent

TestRunNext ==
    \/ \E destination \in TestRunDestinations :
          request_ride(1, destination) /\ UNCHANGED programs
    \/ \E k \in 1..Len(rides) : start_ride(k) /\ UNCHANGED programs
    \/ \E k \in 1..Len(rides), rating \in TestRunRatings :
          end_ride(k, rating) /\ UNCHANGED programs

SpecTestRun == TestRunInit /\ [][TestRunNext]_vars

---------------------------------------------------------------------------
(* The lifecycle state of a Ride, read from its timestamps: the code keeps *)
(* no status field; start_ride records start_time, end_ride end_time.      *)

Status(ride) ==
    IF ride.end_time # None THEN "Ended"
    ELSE IF ride.start_time # None THEN "Started"
    ELSE "Created"

\* the step is a successful match: a Ride was constructed
Matched == Len(rides') = Len(rides) + 1

\* the step is an end_ride call on ride k: it recorded a new end_time
EndCalled(k) == Len(rides') = Len(rides) /\ rides'[k].end_time # rides[k].end_time

\* the drivers of the pool whose vehicle is available
AvailableDrivers == {d \in DriverIds : drivers[d].status = "available"}

---------------------------------------------------------------------------
(* Claims *)

\* C1: a match selects an available driver at minimal Euclidean distance
\* from the rider's location, the earliest in pool order among the equally
\* near ones; an unavailable driver is never selected, and a match fails
\* only when no driver is available.
C1_NearestAvailableFirst ==
    [][/\ Matched =>
            LET ride == rides'[Len(rides')]
                c == ride.driver
                loc == riders[ride.rider].current_location
            IN  /\ c \in AvailableDrivers
                /\ \A d \in AvailableDrivers :
                      /\ DistSq(drivers[c].current_location, loc)
                            <= DistSq(drivers[d].current_location, loc)
                      /\ DistSq(drivers[c].current_location, loc)
                            = DistSq(drivers[d].current_location, loc) => c <= d
       /\ printed' = "No available driver found." => AvailableDrivers = {}
      ]_vars

\* C1 witness: a match was just made while both drivers were available at
\* different places equally far from the rider, and the first one was taken.
C1_TieTakenFirst ==
    /\ printed = "Ride matched"
    /\ LET ride == rides[Len(rides)]
           loc == riders[ride.rider].current_location
       IN  /\ ride.driver = 1
           /\ AvailableDrivers = DriverIds
           /\ drivers[1].current_location # drivers[2].current_location
           /\ DistSq(drivers[1].current_location, loc)
                 = DistSq(drivers[2].current_location, loc)

\* C2: no driver is bound to two rides that have not Ended at the same time.
C2_ExclusiveReservation ==
    \A j, k \in 1..Len(rides) :
        (j # k /\ Status(rides[j]) # "Ended" /\ Status(rides[k]) # "Ended")
            => rides[j].driver # rides[k].driver

\* C3: immediately after a successful match the chosen driver's vehicle is
\* 'unavailable'.
C3_MatchedVehicleUnavailable ==
    printed = "Ride matched"
        => drivers[rides[Len(rides)].driver].status = "unavailable"

\* C4: no rider wallet is ever negative; an end_ride on a ride whose fare
\* exceeds the rider's wallet reports insufficient funds and does not debit.
C4_WalletNeverNegative ==
    /\ [](\A r \in RiderIds : riders[r].wallet >= 0)
    /\ [][\A k \in 1..Len(rides) :
            (EndCalled(k) /\ riders[rides[k].rider].wallet < rides[k].estimated_fare)
                => /\ printed' = "Not enough balance!"
                   /\ riders'[rides[k].rider].wallet = riders[rides[k].rider].wallet
         ]_vars

\* C4 witness: an end_ride was just refused for a ride whose fare is above
\* the rider's (non-negative) wallet.
C4_RefusedForFunds ==
    /\ printed = "Not enough balance!"
    /\ \E k \in 1..Len(rides) :
          /\ rides[k].end_time = clock - 1
          /\ riders[rides[k].rider].wallet >= 0
          /\ riders[rides[k].rider].wallet < rides[k].estimated_fare

\* C5: end_ride with a rating outside 1..5 fails and undoes the settlement:
\* both wallets keep their values, the rating is not appended and the ride
\* remains Started.  Stated for the calls that reach the rating: those on a
\* Started ride whose rider can pay the fare.
C5_InvalidRatingRolledBack ==
    [][\A k \in 1..Len(rides) : \A rating \in Ratings \ (1..5) :
          (/\ Status(rides[k]) = "Started"
           /\ riders[rides[k].rider].wallet >= rides[k].estimated_fare
           /\ end_ride(k, rating))
              => /\ riders' = riders
                 /\ drivers' = drivers
                 /\ Status(rides'[k]) = "Started"
                 /\ printed' # "Ride ended"
      ]_vars

\* C6: an end_ride called while the rider's wallet is below the fare leaves
\* the rider's wallet, the driver's wallet and the driver's ratings as they
\* were.
C6_RefusedSettlementMutatesNothing ==
    [][\A k \in 1..Len(rides) :
          (EndCalled(k) /\ riders[rides[k].rider].wallet < rides[k].estimated_fare)
              => LET r == rides[k].rider
                     d == rides[k].driver
                 IN  /\ riders'[r].wallet = riders[r].wallet
                     /\ drivers'[d].wallet = drivers[d].wallet
                     /\ drivers'[d].rating = drivers[d].rating
      ]_vars

\* C6 witness: an end_ride was just refused for a rider who holds some money,
\* but less than the fare, and whose driver was paid and rated before.
C6_RefusedWithPartFunds ==
    /\ printed = "Not enough balance!"
    /\ \E k \in 1..Len(rides) :
          /\ rides[k].end_time = clock - 1
          /\ riders[rides[k].rider].wallet > 0
          /\ riders[rides[k].rider].wallet < rides[k].estimated_fare
          /\ drivers[rides[k].driver].wallet > 0
          /\ drivers[rides[k].driver].rating # <<>>

\* C7: an end_ride that fails for insufficient funds leaves the Started ride
\* as it was: no end timestamp is recorded and the driver stays bound.
C7_RefusedEndKeepsRideStarted ==
    [][\A k \in 1..Len(rides) : \A rating \in Ratings :
          (/\ Status(rides[k]) = "Started"
           /\ riders[rides[k].rider].wallet < rides[k].estimated_fare
           /\ end_ride(k, rating))
              => /\ rides'[k].end_time = None
                 /\ Status(rides'[k]) = "Started"
                 /\ drivers'[rides[k].driver].current_ride
                        = drivers[rides[k].driver].current_ride
      ]_vars

\* C8: start_ride on a ride that is not Created fails and leaves the ride
\* unchanged, its start timestamp included.
C8_StartOnlyFromCreated ==
    [][\A k \in 1..Len(rides) :
          (Status(rides[k]) # "Created" /\ start_ride(k)) => rides'[k] = rides[k]
      ]_vars

\* C9: end_ride on a ride still Created changes nothing: no end timestamp,
\* no money moved, no rating appended.
C9_EndNotFromCreated ==
    [][\A k \in 1..Len(rides) : \A rating \in Ratings :
          (Status(rides[k]) = "Created" /\ end_ride(k, rating))
              => /\ rides'[k] = rides[k]
                 /\ riders' = riders
                 /\ drivers' = drivers
      ]_vars

\* the rides bound to driver d
RidesOf(d) == {k \in 1..Len(rides) : rides[k].driver = d}

\* the sum of the estimated fares of the rides in ks
RECURSIVE FareSum(_)
FareSum(ks) ==
    IF ks = {} THEN 0
    ELSE LET k == CHOOSE x \in ks : TRUE
         IN  rides[k].estimated_fare + FareSum(ks \ {k})

\* C10: a ride is settled at most once: a driver (whose wallet starts at 0
\* and is credited only by end_ride) holds at most one fare and one rating
\* per ride bound to that driver.
C10_SettledAtMostOnce ==
    \A d \in DriverIds :
        /\ Len(drivers[d].rating) <= Cardinality(RidesOf(d))
        /\ drivers[d].wallet <= FareSum(RidesOf(d))

\* C11: when no driver of the pool has an available vehicle, a match fails:
\* it reports that no driver is available, constructs no Ride and leaves
\* every driver, vehicle and rider (the requesting rider's current_ride
\* included) as they were.
C11_FailedMatchMutatesNothing ==
    [][/\ AvailableDrivers = {} => ~Matched
       /\ printed' = "No available driver found."
              => /\ AvailableDrivers = {}
                 /\ rides' = rides
                 /\ drivers' = drivers
                 /\ riders' = riders
      ]_vars

\* C11 witness: a request was just refused for want of an available driver,
\* and the riders hold no ride.
C11_NoDriverFound ==
    /\ printed = "No available driver found."
    /\ AvailableDrivers = {}
    /\ rides = <<>>
    /\ \A r \in RiderIds : riders[r].current_ride = None

\* C12: a successful match constructs exactly one Ride, from the rider's
\* location to the requested destination, with the chosen driver and that
\* driver's vehicle; the Ride becomes the current ride of the requesting rider
\* and of the chosen driver, and nothing else of any driver or rider changes.
C12_MatchEffects ==
    [][\A r \in RiderIds : \A destination \in Destinations :
          (Matched /\ request_ride(r, destination))
              => LET k == Len(rides')
                     c == rides'[k].driver
                 IN  /\ k = Len(rides) + 1
                     /\ \A j \in 1..Len(rides) : rides'[j] = rides[j]
                     /\ rides'[k].start_location = riders[r].current_location
                     /\ rides'[k].end_location = destination
                     /\ rides'[k].rider = r
                     /\ c \in DriverIds
                     /\ rides'[k].vehicle = c
                     /\ riders' = [riders EXCEPT ![r].current_ride = k]
                     /\ drivers' = [drivers EXCEPT ![c].current_ride = k]
      ]_vars

\* C12 witness: the second rider was just matched with the second driver
\* while the first rider's ride with the first driver is unchanged.
C12_SecondMatchBesideFirst ==
    /\ printed = "Ride matched"
    /\ Len(rides) = 2
    /\ rides[1].rider = 1 /\ rides[1].driver = 1
    /\ rides[2].rider = 2 /\ rides[2].driver = 2
    /\ rides[2].start_location = riders[2].current_location
    /\ rides[2].end_location # rides[1].end_location
    /\ riders[1].current_ride = 1 /\ riders[2].current_ride = 2
    /\ drivers[1].current_ride = 1 /\ drivers[2].current_ride = 2

\* C13: an end_ride that succeeds on a Started ride makes the ride Ended with
\* its end timestamp recorded, and releases the driver: the driver's vehicle
\* is 'available' and the driver's current_ride is cleared.
C13_SuccessfulEndReleasesDriver ==
    [][\A k \in 1..Len(rides) :
          (Status(rides[k]) = "Started" /\ EndCalled(k) /\ printed' = "Ride ended")
              => /\ Status(rides'[k]) = "Ended"
                 /\ drivers'[rides[k].driver].status = "available"
                 /\ drivers'[rides[k].driver].current_ride = None
      ]_vars

\* C14: an end_ride with a rating in 1..5, called while the rider's wallet
\* covers the fare, takes exactly the ride's estimated fare from the rider's
\* wallet, adds it to the wallet of the ride's driver and appends the rating
\* to that driver's ratings; no other wallet or ratings sequence changes.
C14_SettlementMovesTheFare ==
    [][\A k \in 1..Len(rides) : \A rating \in Ratings \cap (1..5) :
          (/\ riders[rides[k].rider].wallet >= rides[k].estimated_fare
           /\ end_ride(k, rating))
              => LET r == rides[k].rider
                     d == rides[k].driver
                     fare == rides[k].estimated_fare
                 IN  /\ riders'[r].wallet = riders[r].wallet - fare
                     /\ drivers'[d].wallet = drivers[d].wallet + fare
                     /\ drivers'[d].rating = Append(drivers[d].rating, rating)
                     /\ printed' = "Ride ended"
                     /\ \A r2 \in RiderIds \ {r} : riders'[r2].wallet = riders[r2].wallet
                     /\ \A d2 \in DriverIds \ {d} :
                           /\ drivers'[d2].wallet = drivers[d2].wallet
                           /\ drivers'[d2].rating = drivers[d2].rating
      ]_vars

\* C14 witness: a ride was just settled with rating 4: its driver holds the
\* fare and the rating, the other driver holds nothing.
C14_SettledWithRating ==
    /\ printed = "Ride ended"
    /\ \E k \in 1..Len(rides) :
          LET d == rides[k].driver
          IN  /\ rides[k].end_time = clock - 1
              /\ rides[k].estimated_fare > 0
              /\ drivers[d].wallet = rides[k].estimated_fare
              /\ drivers[d].rating = <<4>>
              /\ \A d2 \in DriverIds \ {d} :
                    drivers[d2].wallet = 0 /\ drivers[d2].rating = <<>>

\* the rides of rider r that have not Ended
ActiveRidesOf(r) ==
    {k \in 1..Len(rides) : rides[k].rider = r /\ Status(rides[k]) # "Ended"}

C16_FailuresReturned ==
    /\ \A r \in RiderIds : (found_ride(r) = None) <=> (AvailableDrivers = {})
    /\ \A k \in 1..Len(rides) :
          LET wallet == riders[rides[k].rider].wallet
              fare == rides[k].estimated_fare
          IN  wallet < fare
                  => end_ride_returns(wallet, fare) # end_ride_returns(fare, fare)

\* the drivers of the test run of the source: a car at (11, 10), a bike at
\* (20, 30)
TestRunDrivers ==
    /\ drivers[1].vehicle_type = "car" /\ drivers[1].current_location = <<11, 10>>
    /\ drivers[2].vehicle_type = "bike" /\ drivers[2].current_location = <<20, 30>>

\* C17: in the test run (rider at (10, 10) with 500.00 asking for (15, 12),
\* a car at (11, 10), a bike at (20, 30)) the match takes driver 1 at a fare
\* of 80.78, and end_ride(5) on the started ride leaves the rider 419.22,
\* driver 1 80.78 and the ratings <<5>>, and driver 2 as constructed.
C17_TestRun ==
    [][/\ (/\ TestRunDrivers
           /\ riders[1].wallet = 50000
           /\ rides = <<>>
           /\ request_ride(1, <<15, 12>>))
              => /\ Len(rides') = 1
                 /\ rides'[1].driver = 1
                 /\ rides'[1].estimated_fare = 8078
       /\ (/\ TestRunDrivers
           /\ riders[1].wallet = 50000
           /\ Len(rides) = 1
           /\ rides[1].end_location = <<15, 12>>
           /\ Status(rides[1]) = "Started"
           /\ end_ride(1, 5))
              => /\ riders'[1].wallet = 41922
                 /\ drivers'[1].wallet = 8078
                 /\ drivers'[1].rating = <<5>>
                 /\ drivers'[2] = NewDriver(<<20, 30>>, Bike)
      ]_vars

\* C17 witness: the state the test run of the source ends in.
C17_TestRunEnded ==
    /\ TestRunDrivers
    /\ Len(rides) = 1
    /\ rides[1].end_location = <<15, 12>>
    /\ rides[1].driver = 1
    /\ rides[1].start_time = 1 /\ rides[1].end_time = 2
    /\ riders[1].wallet = 41922
    /\ drivers[1].wallet = 8078
    /\ drivers[1].rating = <<5>>
    /\ drivers[2] = NewDriver(<<20, 30>>, Bike)
    /\ printed = "Ride ended"

\* C18: the fare of every ride is the Euclidean distance between its start
\* and its end times the rate of its vehicle, rounded to two decimals: in
\* hundredths, the integer v nearest to 100 * rate * sqrt(n), that is
\* (2v - 1)^2 <= 4 * (100 * rate)^2 * n < (2v + 1)^2.  It depends on nothing
\* else, so equal inputs give equal fares.
C18_FareIsRoundedDistanceTimesRate ==
    \A k \in 1..Len(rides) :
        LET n == DistSq(rides[k].start_location, rides[k].end_location)
            x == 100 * drivers[rides[k].vehicle].rate
            v == rides[k].estimated_fare
        IN  /\ v >= 0
            /\ v > 0 => (2 * v - 1) * (2 * v - 1) <= 4 * x * x * n
            /\ 4 * x * x * n < (2 * v + 1) * (2 * v + 1)

\* C18 witness: a fare that was rounded up (80.7775 to 80.78), of a rider
\* with an empty wallet and a ride already ended.
C18_FareRoundedUp ==
    \E k \in 1..Len(rides) :
        /\ DistSq(rides[k].start_location, rides[k].end_location) = 29
        /\ drivers[rides[k].vehicle].rate = 15
        /\ rides[k].estimated_fare = 8078
        /\ riders[rides[k].rider].wallet = 0
        /\ rides[k].end_time # None

\* C19: a driver's vehicle is 'unavailable' exactly while the driver is
\* assigned to a ride that has not Ended.  Stated for the direction the
\* engine is responsible for: a driver assigned to such a ride has an
\* 'unavailable' vehicle.
C19_AssignedDriverUnavailable ==
    \A k \in 1..Len(rides) :
        Status(rides[k]) # "Ended"
            => drivers[rides[k].driver].status = "unavailable"

\* C20: every element of every driver's ratings is an integer from 1 to 5,
\* whatever rating is passed to end_ride.
C20_RatingsInRange ==
    \A d \in DriverIds :
        \A i \in 1..Len(drivers[d].rating) : drivers[d].rating[i] \in 1..5

\* the position of a status on the line Created, Started, Ended
StatusRank(status) ==
    CASE status = "Created" -> 1
      [] status = "Started" -> 2
      [] status = "Ended" -> 3

\* C21: over any sequence of start_ride and end_ride calls a ride's status
\* only moves forward along Created, Started, Ended: a step leaves it where
\* it is or moves it to the next status, so it never goes back, never goes
\* from Created straight to Ended, and an Ended ride stays Ended.
C21_StatusMovesForwardOneStep ==
    [][\A k \in 1..Len(rides) :
          LET before == StatusRank(Status(rides[k]))
              after == StatusRank(Status(rides'[k]))
          IN  /\ after >= before
              /\ after <= before + 1
      ]_vars

\* C22: the estimated fare and the driver reference of a ride are fixed once
\* the match has returned it: no later call (start_ride, end_ride, load_cash,
\* update_location among them) changes either, and a settling end_ride moves
\* exactly the fare of the ride's own start and end location at the rate of
\* its driver's vehicle, wherever the driver stands by then.
C22_FareAndDriverFixed ==
    [][\A k \in 1..Len(rides) :
          LET r == rides[k].rider
              d == rides[k].driver
              fare == calculate_fare(rides[k].start_location,
                                     rides[k].end_location, drivers[d].rate)
          IN  /\ rides'[k].estimated_fare = rides[k].estimated_fare
              /\ rides'[k].driver = rides[k].driver
              /\ (EndCalled(k) /\ printed' = "Ride ended")
                    => /\ riders[r].wallet - riders'[r].wallet = fare
                       /\ drivers'[d].wallet - drivers[d].wallet = fare
      ]_vars

\* C22 witness: a ride was just settled although its driver had moved after
\* the match: another available driver now stands strictly closer to the
\* place the rider was picked up at.
C22_SettledAfterDriverMoved ==
    /\ printed = "Ride ended"
    /\ \E k \in 1..Len(rides) :
          LET d == rides[k].driver
          IN  /\ rides[k].end_time = clock - 1
              /\ rides[k].start_time # None
              /\ rides[k].estimated_fare > 0
              /\ drivers[d].wallet >= rides[k].estimated_fare
              /\ \E d2 \in AvailableDrivers \ {d} :
                    DistSq(drivers[d2].current_location, rides[k].start_location)
                        < DistSq(drivers[d].current_location, rides[k].start_location)

\* the ratings of the sequence rating added up value by value: each value of
\* the set values times the number of places it stands at
RECURSIVE TotalByValue(_, _)
TotalByValue(values, rating) ==
    IF values = {}
    THEN 0
    ELSE LET v == CHOOSE x \in values : TRUE
         IN  v * Cardinality({i \in DOMAIN rating : rating[i] = v})
                 + TotalByValue(values \ {v}, rating)

\* C23: the average rating shown by display_profile is derived from the
\* driver's ratings when it is read: with at least one rating it is a number,
\* the sum of the ratings over their count; with no rating it is the text
\* "N/A", not a number and not a division by zero.
C23_AverageDerivedOnRead ==
    \A d \in DriverIds :
        LET rating == drivers[d].rating
            shown == avg_rating(rating)
        IN  IF Len(rating) = 0
            THEN ~shown.numeric /\ shown.text = "N/A"
            ELSE /\ shown.numeric
                 /\ shown.den = Len(rating)
                 /\ shown.den > 0
                 /\ shown.num = TotalByValue({rating[i] : i \in DOMAIN rating}, rating)

\* C23 witness: one driver has been rated 4 and then 6 and shows 10 / 2, the
\* other has no rating and shows "N/A".
C23_RatedTwiceAndUnrated ==
    \E d \in DriverIds :
        /\ drivers[d].rating = <<4, 6>>
        /\ avg_rating(drivers[d].rating).num = 10
        /\ avg_rating(drivers[d].rating).den = 2
        /\ \A d2 \in DriverIds \ {d} :
              drivers[d2].rating = <<>> /\ ~avg_rating(drivers[d2].rating).numeric

\* the wallets of the first n users of the pool users, added up
RECURSIVE WalletSum(_, _)
WalletSum(users, n) ==
    IF n = 0 THEN 0 ELSE users[n].wallet + WalletSum(users, n - 1)

\* C24: the ride engine conserves money: a step that changes a wallet and
\* with it the sum of all rider and driver wallets is a load_cash with a
\* positive amount and is no request_ride, start_ride or end_ride call,
\* settling or refused; and a load_cash with an amount that is not positive
\* changes no rider.
C24_MoneyConserved ==
    [][LET before == WalletSum(riders, Cardinality(RiderIds)) + WalletSum(drivers, Cardinality(DriverIds))
           after == WalletSum(riders', Cardinality(RiderIds)) + WalletSum(drivers', Cardinality(DriverIds))
           kept == /\ \A r \in RiderIds : riders'[r].wallet = riders[r].wallet
                   /\ \A d \in DriverIds : drivers'[d].wallet = drivers[d].wallet
       IN  /\ (~kept /\ after # before)
                 => /\ \E r \in RiderIds : \E amount \in LoadAmounts :
                          amount > 0 /\ load_cash(r, amount)
                    /\ ~ \E r \in RiderIds : \E destination \in Destinations :
                          request_ride(r, destination)
                    /\ ~ \E k \in 1..Len(rides) : start_ride(k)
                    /\ ~ \E k \in 1..Len(rides) : \E rating \in Ratings :
                          end_ride(k, rating)
           /\ riders' # riders
                 => ~ \E r \in RiderIds : \E amount \in LoadAmounts :
                        amount <= 0 /\ load_cash(r, amount)
      ]_vars

\* C24 witness: cash was loaded, a ride was settled and a further end_ride
\* was refused for funds: the wallets add up to the two amounts paid in,
\* part of it now with a driver.
C24_LoadedSettledAndRefused ==
    /\ printed = "Not enough balance!"
    /\ WalletSum(riders, Cardinality(RiderIds)) + WalletSum(drivers, Cardinality(DriverIds)) = 10000
    /\ \E d \in DriverIds : drivers[d].wallet > 0

\* C25: a rider whose ride was started, ended and settled can ride again: a
\* request_ride of that rider made while a driver is available creates a new
\* Ride and makes it the rider's active ride.
C25_RiderRidesAgain ==
    [][\A r \in RiderIds : \A destination \in Destinations :
          (/\ riders[r].current_ride # None
           /\ rides[riders[r].current_ride].start_time # None
           /\ rides[riders[r].current_ride].end_time # None
           /\ drivers[rides[riders[r].current_ride].driver].rating # <<>>
           /\ AvailableDrivers # {}
           /\ request_ride(r, destination))
              => /\ Matched
                 /\ riders'[r].current_ride = Len(rides')
                 /\ rides'[Len(rides')].rider = r
      ]_vars

---------------------------------------------------------------------------
(* src/ride_share.py: the RideShareSystem.  A driver is named by its       *)
(* position in system.drivers (the list find_available_driver iterates     *)
(* over), a Ride by its position in system.rides; returned is what the     *)
(* last call returned.                                                     *)

\* book_ride is not called once system.rides holds MaxRides rides
MaxRides == 3

\* the riders that book and the destinations they ask for
SystemRiders == {"Nahidur", "Rider2"}
SystemDestinations == {"Gulshan"}

\* Driver.__init__
SystemDriver(name) == [name |-> name, available |-> TRUE]

\* the script up to the registration of driver1 and driver2
SystemInit ==
    /\ system = [drivers |-> <<SystemDriver("Alice"), SystemDriver("Bob")>>,
                 rides |-> <<>>,
                 returned |-> None]
    /\ EngineAbsent
    /\ library = Absent
    /\ restaurant = Absent
    /\ eshop = Absent

\* the loop of RideShareSystem.find_available_driver from position i on
RECURSIVE find_available_driver_from(_)
find_available_driver_from(i) ==
    IF i > Len(system.drivers)
    THEN None
    ELSE IF system.drivers[i].available
         THEN i
         ELSE find_available_driver_from(i + 1)

\* RideShareSystem.find_available_driver
find_available_driver == find_available_driver_from(1)

\* Ride.__init__ followed by Ride.start_ride, as book_ride calls them
Ride_start_ride(rider, driver, destination) ==
    [rider |-> rider, driver |-> driver, destination |-> destination,
     status |-> "Ongoing"]

\* RideShareSystem.book_ride
book_ride(rider, destination) ==
    /\ Len(system.rides) < MaxRides
    /\ LET driver == find_available_driver
       IN  IF driver # None
           THEN system' = [system EXCEPT
                              !.drivers[driver].available = FALSE,
                              !.rides = Append(@, Ride_start_ride(rider, driver, destination)),
                              !.returned = Len(system.rides) + 1]
           ELSE system' = [system EXCEPT !.returned = None]
    /\ UNCHANGED <<engine, library, restaurant, eshop>>

\* Ride.end_ride on the ride book_ride returned as ride k
Ride_end_ride(k) ==
    /\ k \in 1..Len(system.rides)
    /\ system' = [system EXCEPT
                     !.rides[k].status = "Completed",
                     !.drivers[system.rides[k].driver].available = TRUE,
                     !.returned = None]
    /\ UNCHANGED <<engine, library, restaurant, eshop>>

SystemNext ==
    \/ \E rider \in SystemRiders, destination \in SystemDestinations :
          book_ride(rider, destination)
    \/ \E k \in 1..Len(system.rides) : Ride_end_ride(k)

SpecSystem == SystemInit /\ [][SystemNext]_vars

\* the Ongoing rides bound to driver d
OngoingRidesOf(d) ==
    {k \in 1..Len(system.rides) :
        system.rides[k].driver = d /\ system.rides[k].status = "Ongoing"}

\* C26: in the simple ride-share system, after any sequence of book_ride
\* calls and end_ride calls on rides book_ride returned, no driver is the
\* driver of two Ongoing rides, and a driver is available exactly when none
\* of the rides bound to that driver is Ongoing.
C26_OneOngoingRidePerDriver ==
    \A d \in 1..Len(system.drivers) :
        /\ Cardinality(OngoingRidesOf(d)) <= 1
        /\ system.drivers[d].available <=> OngoingRidesOf(d) = {}

---------------------------------------------------------------------------
(* src/libary_management.py: the Library.  books maps an ISBN to its Book, *)
(* users an email to its User; borrowed_by is kept as the set of its keys  *)
(* (the due dates are read by no operation below); library_data is the     *)
(* content of library_data.json; returned is what the last call returned.  *)

\* add_book is called with 1..MaxCopies copies
MaxCopies == 2

\* None as current_user
NoUser == "None"

Isbns == {"111", "222"}
Emails == {"reader1@mail.com", "reader2@mail.com"}
Passwords == {"secret", "wrong"}

\* Book.__init__
Book(total_copies) ==
    [total_copies |-> total_copies, available_copies |-> total_copies,
     borrowed_by |-> {}]

\* User.__init__ of src/libary_management.py
LibraryUser(password, is_admin) ==
    [password |-> password, is_admin |-> is_admin, borrowed_books |-> <<>>]

\* Library.save_data: what the file holds after books and users are saved
Library_save_data(books, users) == [books |-> books, users |-> users]

\* Library.__init__ where library_data.json does not exist: load_data
\* creates the default admin and saves
LibraryInit ==
    /\ LET users == "admin@library.com" :> LibraryUser("admin123", TRUE)
       IN  library = [books |-> <<>>,
                      users |-> users,
                      current_user |-> NoUser,
                      library_data |-> Library_save_data(<<>>, users),
                      returned |-> [ok |-> TRUE, message |-> ""]]
    /\ EngineAbsent
    /\ system = Absent
    /\ restaurant = Absent
    /\ eshop = Absent

\* a call that changes nothing and returns (ok, message)
Library_returns(ok, message) ==
    /\ library' = [library EXCEPT !.returned = [ok |-> ok, message |-> message]]
    /\ UNCHANGED <<engine, system, restaurant, eshop>>

\* Library.__init__ run again: the program is started anew and load_data
\* reads library_data.json
Library_load_data ==
    /\ library' = [library EXCEPT
                      !.books = library.library_data.books,
                      !.users = library.library_data.users,
                      !.current_user = NoUser,
                      !.returned = [ok |-> TRUE, message |-> ""]]
    /\ UNCHANGED <<engine, system, restaurant, eshop>>

\* Library.create_account (is_admin left at its default)
Library_create_account(email, password) ==
    IF email \in DOMAIN library.users
    THEN Library_returns(FALSE, "Email already registered")
    ELSE /\ LET users == (email :> LibraryUser(password, FALSE)) @@ library.users
            IN  library' = [library EXCEPT
                               !.users = users,
                               !.library_data = Library_save_data(library.books, users),
                               !.returned = [ok |-> TRUE,
                                             message |-> "Account created successfully"]]
         /\ UNCHANGED <<engine, system, restaurant, eshop>>

\* Library.login
Library_login(email, password) ==
    IF email \notin DOMAIN library.users
    THEN Library_returns(FALSE, "User not found")
    ELSE IF library.users[email].password # password
         THEN Library_returns(FALSE, "Incorrect password")
         ELSE /\ library' = [library EXCEPT
                                !.current_user = email,
                                !.returned = [ok |-> TRUE, message |-> "Login successful"]]
              /\ UNCHANGED <<engine, system, restaurant, eshop>>

\* Library.logout
Library_logout ==
    /\ library' = [library EXCEPT
                      !.current_user = NoUser,
                      !.returned = [ok |-> TRUE, message |-> "Logged out successfully"]]
    /\ UNCHANGED <<engine, system, restaurant, eshop>>

\* Library.add_book
Library_add_book(isbn, total_copies) ==
    IF library.current_user = NoUser
       \/ ~library.users[library.current_user].is_admin
    THEN Library_returns(FALSE, "Admin access required")
    ELSE IF isbn \in DOMAIN library.books
         THEN Library_returns(FALSE, "Book with this ISBN already exists")
         ELSE /\ LET books == (isbn :> Book(total_copies)) @@ library.books
                 IN  library' = [library EXCEPT
                                    !.books = books,
                                    !.library_data = Library_save_data(books, library.users),
                                    !.returned = [ok |-> TRUE,
                                                  message |-> "Book added successfully"]]
              /\ UNCHANGED <<engine, system, restaurant, eshop>>

\* Book.borrow: the book after the call (the call returns False, and the
\* book is as before, when no copy is available)
Book_borrow(book, user_email) ==
    IF book.available_copies <= 0
    THEN book
    ELSE [book EXCEPT !.available_copies = @ - 1,
                      !.borrowed_by = @ \cup {user_email}]

\* Book.return_book: the book after the call (the call returns False, and
\* the book is as before, when user_email is no key of borrowed_by)
Book_return_book(book, user_email) ==
    IF user_email \notin book.borrowed_by
    THEN book
    ELSE [book EXCEPT !.available_copies = @ + 1,
                      !.borrowed_by = @ \ {user_email}]

\* list.remove: the list without the first occurrence of x
RECURSIVE remove(_, _)
remove(list, x) ==
    IF list = <<>>
    THEN list
    ELSE IF Head(list) = x
         THEN Tail(list)
         ELSE <<Head(list)>> \o remove(Tail(list), x)

\* x in list
In(x, list) == \E i \in 1..Len(list) : list[i] = x

\* Library.borrow_book
Library_borrow_book(isbn) ==
    IF library.current_user = NoUser
    THEN Library_returns(FALSE, "Please login first")
    ELSE IF library.users[library.current_user].is_admin
    THEN Library_returns(FALSE, "Admins cannot borrow books")
    ELSE IF isbn \notin DOMAIN library.books
    THEN Library_returns(FALSE, "Book not found")
    ELSE IF library.books[isbn].available_copies <= 0
    THEN Library_returns(FALSE, "No available copies of this book")
    ELSE /\ LET email == library.current_user
                books == [library.books EXCEPT ![isbn] = Book_borrow(@, email)]
                users == [library.users EXCEPT
                             ![email].borrowed_books = Append(@, isbn)]
            IN  library' = [library EXCEPT
                               !.books = books,
                               !.users = users,
                               !.library_data = Library_save_data(books, users),
                               !.returned = [ok |-> TRUE,
                                             message |-> "Book borrowed successfully"]]
         /\ UNCHANGED <<engine, system, restaurant, eshop>>

\* Library.return_book
Library_return_book(isbn) ==
    IF library.current_user = NoUser
    THEN Library_returns(FALSE, "Please login first")
    ELSE IF library.users[library.current_user].is_admin
    THEN Library_returns(FALSE, "Admins cannot return books")
    ELSE IF isbn \notin DOMAIN library.books
    THEN Library_returns(FALSE, "Book not found")
    ELSE IF ~In(isbn, library.users[library.current_user].borrowed_books)
    THEN Library_returns(FALSE, "You haven't borrowed this book")
    ELSE IF library.current_user \notin library.books[isbn].borrowed_by
    THEN Library_returns(FALSE, "Return failed")
    ELSE /\ LET email == library.current_user
                books == [library.books EXCEPT ![isbn] = Book_return_book(@, email)]
                users == [library.users EXCEPT
                             ![email].borrowed_books = remove(@, isbn)]
            IN  library' = [library EXCEPT
                               !.books = books,
                               !.users = users,
                               !.library_data = Library_save_data(books, users),
                               !.returned = [ok |-> TRUE,
                                             message |-> "Book returned successfully"]]
         /\ UNCHANGED <<engine, system, restaurant, eshop>>

LibraryNext ==
    \/ Library_load_data
    \/ \E email \in Emails : Library_create_account(email, "secret")
    \/ \E email \in Emails \cup {"admin@library.com"}, password \in Passwords \cup {"admin123"} :
          Library_login(email, password)
    \/ Library_logout
    \/ \E isbn \in Isbns, total_copies \in 1..MaxCopies :
          Library_add_book(isbn, total_copies)
    \/ \E isbn \in Isbns : Library_borrow_book(isbn)
    \/ \E isbn \in Isbns : Library_return_book(isbn)

SpecLibrary == LibraryInit /\ [][LibraryNext]_vars

\* C27: in the library, after any sequence of borrow_book and return_book
\* calls by logged-in users that are not admins, every book has
\* available_copies + (number of entries of borrowed_by) = total_copies and
\* 0 <= available_copies <= total_copies.
C27_CopiesAccountedFor ==
    \A isbn \in DOMAIN library.books :
        LET book == library.books[isbn]
        IN  /\ book.available_copies + Cardinality(book.borrowed_by) = book.total_copies
            /\ 0 <= book.available_copies
            /\ book.available_copies <= book.total_copies

---------------------------------------------------------------------------
(* src/resturant.py: the Restaurant, with its accounts created and its     *)
(* menu filled.  users maps an email to its User, menu a food name to its  *)
(* FoodItem, orders an order id to its Order; now is the second            *)
(* datetime.now() falls in, which is also the order id of an Order made    *)
(* then; restaurant_data is the content of restaurant_data.json; returned  *)
(* is what the last call returned.                                         *)

\* the seconds a behaviour runs through
MaxSeconds == 2

\* the values of OrderStatus, in the order of their declaration
OrderStatus == <<"Pending", "Cooking", "Ready to Serve", "Served", "Completed">>

\* the accounts: email, password and user_type
RestaurantUsers ==
    ("manager@restaurant.com" :> [password |-> "manager123", user_type |-> "Manager"])
    @@ ("customer@mail.com" :> [password |-> "secret", user_type |-> "Customer"])
    @@ ("chef@mail.com" :> [password |-> "secret", user_type |-> "Chef"])
    @@ ("server@mail.com" :> [password |-> "secret", user_type |-> "Server"])
    @@ ("cleaner@mail.com" :> [password |-> "secret", user_type |-> "Cleaner"])

\* the menu: one FoodItem with its stock
RestaurantMenu == "Burger" :> [price |-> 250, stock |-> 2]

\* the item lists passed to place_order: (food name, quantity) pairs
RestaurantItems ==
    { <<(<<"Burger", 1>>)>>,
      <<(<<"Burger", 1>>), (<<"Juice", 1>>)>> }

\* the actions passed to process_order
RestaurantActions == {"cook", "ready", "serve", "complete", "rate"}

\* Restaurant.save_data: what the file holds after menu and orders are saved
Restaurant_save_data(menu, orders) == [menu |-> menu, orders |-> orders]

RestaurantInit ==
    /\ restaurant = [users |-> RestaurantUsers,
                     menu |-> RestaurantMenu,
                     orders |-> <<>>,
                     current_user |-> NoUser,
                     now |-> 1,
                     restaurant_data |-> Restaurant_save_data(RestaurantMenu, <<>>),
                     returned |-> [ok |-> TRUE, message |-> ""]]
    /\ EngineAbsent
    /\ system = Absent
    /\ library = Absent
    /\ eshop = Absent

\* a call that changes nothing and returns (ok, message)
Restaurant_returns(ok, message) ==
    /\ restaurant' = [restaurant EXCEPT !.returned = [ok |-> ok, message |-> message]]
    /\ UNCHANGED <<engine, system, library, eshop>>

\* a second passes
Restaurant_tick ==
    /\ restaurant.now < MaxSeconds
    /\ restaurant' = [restaurant EXCEPT !.now = @ + 1]
    /\ UNCHANGED <<engine, system, library, eshop>>

\* Restaurant.__init__ run again: the program is started anew and load_data
\* reads restaurant_data.json
Restaurant_load_data ==
    /\ restaurant' = [restaurant EXCEPT
                         !.menu = restaurant.restaurant_data.menu,
                         !.orders = restaurant.restaurant_data.orders,
                         !.current_user = NoUser,
                         !.returned = [ok |-> TRUE, message |-> ""]]
    /\ UNCHANGED <<engine, system, library, eshop>>

\* Restaurant.login
Restaurant_login(email, password) ==
    IF email \notin DOMAIN restaurant.users
    THEN Restaurant_returns(FALSE, "User not found")
    ELSE IF restaurant.users[email].password # password
         THEN Restaurant_returns(FALSE, "Incorrect password")
         ELSE /\ restaurant' = [restaurant EXCEPT
                                   !.current_user = email,
                                   !.returned = [ok |-> TRUE, message |-> "Welcome"]]
              /\ UNCHANGED <<engine, system, library, eshop>>

\* Restaurant.logout
Restaurant_logout ==
    /\ restaurant' = [restaurant EXCEPT
                         !.current_user = NoUser,
                         !.returned = [ok |-> TRUE, message |-> "Logged out successfully"]]
    /\ UNCHANGED <<engine, system, library, eshop>>

\* user_type of the logged-in user, "" when nobody is logged in
Restaurant_user_type ==
    IF restaurant.current_user = NoUser
    THEN ""
    ELSE restaurant.users[restaurant.current_user].user_type

\* Order.__init__ of src/resturant.py at second now
RestaurantOrder(customer_email, table_number, now) ==
    [customer_email |-> customer_email, table_number |-> table_number,
     items |-> <<>>, status |-> "Pending", rating |-> None,
     chef |-> NoUser, server |-> NoUser, cleaner |-> NoUser,
     created_at |-> now, updated_at |-> now]

\* the loop of Restaurant.place_order with Order.add_item and
\* FoodItem.reduce_stock: the menu and the items of the order after the
\* loop, and whether it ran to its end
RECURSIVE Restaurant_add_items(_, _, _)
Restaurant_add_items(menu, items, added) ==
    IF items = <<>>
    THEN [ok |-> TRUE, menu |-> menu, items |-> added, message |-> ""]
    ELSE LET item_name == Head(items)[1]
             quantity == Head(items)[2]
         IN  IF item_name \notin DOMAIN menu \/ menu[item_name].stock <= 0
             THEN [ok |-> FALSE, menu |-> menu, items |-> added,
                   message |-> "is not available"]
             ELSE IF menu[item_name].stock < quantity
             THEN [ok |-> FALSE, menu |-> menu, items |-> added,
                   message |-> "Failed to add"]
             ELSE Restaurant_add_items(
                      [menu EXCEPT ![item_name].stock = @ - quantity],
                      Tail(items),
                      Append(added, [food_name |-> item_name, quantity |-> quantity]))

\* Restaurant.place_order (no coupon_code)
Restaurant_place_order(table_number, items) ==
    IF Restaurant_user_type # "Customer"
    THEN Restaurant_returns(FALSE, "Customer login required")
    ELSE /\ LET order == RestaurantOrder(restaurant.current_user, table_number,
                                         restaurant.now)
                loop == Restaurant_add_items(restaurant.menu, items, <<>>)
                orders == (restaurant.now :> [order EXCEPT !.items = loop.items])
                              @@ restaurant.orders
            IN  IF loop.ok
                THEN restaurant' = [restaurant EXCEPT
                         !.menu = loop.menu,
                         !.orders = orders,
                         !.restaurant_data = Restaurant_save_data(loop.menu, orders),
                         !.returned = [ok |-> TRUE,
                                       message |-> "Order placed successfully!"]]
                ELSE restaurant' = [restaurant EXCEPT
                         !.menu = loop.menu,
                         !.returned = [ok |-> FALSE, message |-> loop.message]]
         /\ UNCHANGED <<engine, system, library, eshop>>

\* Order.update_status with the assignment of the staff field (chef, server
\* or cleaner; "" for none) and Restaurant.save_data, as process_order calls
\* them on a success
Restaurant_update_status(order_id, new_status, field, message) ==
    /\ LET email == restaurant.current_user
           updated == [restaurant.orders[order_id] EXCEPT
                          !.status = new_status,
                          !.updated_at = restaurant.now,
                          !.chef = IF field = "chef" THEN email ELSE @,
                          !.server = IF field = "server" THEN email ELSE @,
                          !.cleaner = IF field = "cleaner" THEN email ELSE @]
           orders == [restaurant.orders EXCEPT ![order_id] = updated]
       IN  restaurant' = [restaurant EXCEPT
                             !.orders = orders,
                             !.restaurant_data =
                                 Restaurant_save_data(restaurant.menu, orders),
                             !.returned = [ok |-> TRUE, message |-> message]]
    /\ UNCHANGED <<engine, system, library, eshop>>

\* Restaurant.process_order
Restaurant_process_order(order_id, action) ==
    IF restaurant.current_user = NoUser
    THEN Restaurant_returns(FALSE, "Login required")
    ELSE IF order_id \notin DOMAIN restaurant.orders
    THEN Restaurant_returns(FALSE, "Order not found")
    ELSE LET status == restaurant.orders[order_id].status
         IN  IF action = "cook" /\ Restaurant_user_type = "Chef"
             THEN Restaurant_update_status(order_id, "Cooking", "chef",
                                           "Order is being cooked")
             ELSE IF action = "serve" /\ Restaurant_user_type = "Server"
             THEN IF status # "Ready to Serve"
                  THEN Restaurant_returns(FALSE, "Order is not ready to serve")
                  ELSE Restaurant_update_status(order_id, "Served", "server",
                                                "Order served")
             ELSE IF action = "complete" /\ Restaurant_user_type = "Cleaner"
             THEN IF status # "Served"
                  THEN Restaurant_returns(FALSE, "Order has not been served yet")
                  ELSE Restaurant_update_status(order_id, "Completed", "cleaner",
                                                "Table cleaned")
             ELSE IF action = "ready" /\ Restaurant_user_type = "Chef"
             THEN IF status # "Cooking"
                  THEN Restaurant_returns(FALSE, "Order is not being cooked")
                  ELSE Restaurant_update_status(order_id, "Ready to Serve", "",
                                                "Order is ready to serve")
             ELSE Restaurant_returns(FALSE, "Invalid action for your role")

RestaurantNext ==
    \/ Restaurant_tick
    \/ Restaurant_load_data
    \/ \E email \in DOMAIN RestaurantUsers \cup {"nobody@mail.com"},
          password \in Passwords \cup {"manager123"} :
          Restaurant_login(email, password)
    \/ Restaurant_logout
    \/ \E items \in RestaurantItems : Restaurant_place_order(1, items)
    \/ \E order_id \in 1..MaxSeconds, action \in RestaurantActions :
          Restaurant_process_order(order_id, action)

SpecRestaurant == RestaurantInit /\ [][RestaurantNext]_vars

\* the position of a status in OrderStatus
OrderStatusRank(status) ==
    CHOOSE i \in 1..Len(OrderStatus) : OrderStatus[i] = status

\* C28: in the restaurant, over any sequence of process_order calls by
\* logged-in staff, an order's status only advances along Pending, Cooking,
\* Ready to Serve, Served, Completed: no process_order call moves an order
\* back to an earlier status, and a Completed order stays Completed.
C28_OrderStatusOnlyAdvances ==
    [][\A order_id \in DOMAIN restaurant.orders : \A action \in RestaurantActions :
          Restaurant_process_order(order_id, action)
              => LET before == restaurant.orders[order_id].status
                     after == restaurant'.orders[order_id].status
                 IN  /\ OrderStatusRank(after) >= OrderStatusRank(before)
                     /\ before = "Completed" => after = "Completed"
      ]_vars

---------------------------------------------------------------------------
(* src/shopping.py: the EShop, with its accounts created and its products  *)
(* added.  users maps an email to its User; products is the list of        *)
(* Product objects, a product being named by its position in it; orders    *)
(* maps an order id to its Order; now is the second datetime.now() falls   *)
(* in, which is also the order id of an Order made then; eshop_data is the *)
(* content of eshop_data.json; returned is what the last call returned.    *)

\* the accounts: email, password and user_type
EShopUsers ==
    ("customer@mail.com" :> [password |-> "secret", user_type |-> "Customer"])
    @@ ("seller1@mail.com" :> [password |-> "secret", user_type |-> "Seller"])
    @@ ("seller2@mail.com" :> [password |-> "secret", user_type |-> "Seller"])

\* the products, in the order they were added
EShopProducts ==
    << [name |-> "Phone", seller_email |-> "seller1@mail.com", price |-> 300, stock |-> 2],
       [name |-> "Shirt", seller_email |-> "seller2@mail.com", price |-> 20, stock |-> 1] >>

\* the item lists passed to place_order: (product name, seller email,
\* quantity) triples
EShopItems ==
    { <<(<<"Phone", "seller1@mail.com", 1>>)>>,
      <<(<<"Phone", "seller1@mail.com", 1>>), (<<"Shirt", "seller2@mail.com", 2>>)>>,
      <<(<<"Shirt", "seller2@mail.com", 1>>), (<<"Lamp", "seller1@mail.com", 1>>)>> }

\* the statuses passed to update_order_status: two values of OrderStatus
\* and a string that is none
EShopStatuses == {"Shipped", "Cancelled", "Lost"}

\* the values of OrderStatus of src/shopping.py
EShopOrderStatus == {"Pending", "Processing", "Shipped", "Delivered", "Cancelled"}

\* EShop.save_data: what the file holds after products and orders are saved
EShop_save_data(products, orders) == [products |-> products, orders |-> orders]

EShopInit ==
    /\ eshop = [users |-> EShopUsers,
                products |-> EShopProducts,
                orders |-> <<>>,
                current_user |-> NoUser,
                now |-> 1,
                eshop_data |-> EShop_save_data(EShopProducts, <<>>),
                returned |-> [ok |-> TRUE, message |-> ""]]
    /\ EngineAbsent
    /\ system = Absent
    /\ library = Absent
    /\ restaurant = Absent

\* a call that changes nothing and returns (ok, message)
EShop_returns(ok, message) ==
    /\ eshop' = [eshop EXCEPT !.returned = [ok |-> ok, message |-> message]]
    /\ UNCHANGED <<engine, system, library, restaurant>>

\* a second passes
EShop_tick ==
    /\ eshop.now < MaxSeconds
    /\ eshop' = [eshop EXCEPT !.now = @ + 1]
    /\ UNCHANGED <<engine, system, library, restaurant>>

\* EShop.__init__ run again: the program is started anew and load_data
\* reads eshop_data.json
EShop_load_data ==
    /\ eshop' = [eshop EXCEPT
                    !.products = eshop.eshop_data.products,
                    !.orders = eshop.eshop_data.orders,
                    !.current_user = NoUser,
                    !.returned = [ok |-> TRUE, message |-> ""]]
    /\ UNCHANGED <<engine, system, library, restaurant>>

\* EShop.login
EShop_login(email, password) ==
    IF email \notin DOMAIN eshop.users
    THEN EShop_returns(FALSE, "User not found")
    ELSE IF eshop.users[email].password # password
         THEN EShop_returns(FALSE, "Incorrect password")
         ELSE /\ eshop' = [eshop EXCEPT
                              !.current_user = email,
                              !.returned = [ok |-> TRUE, message |-> "Welcome"]]
              /\ UNCHANGED <<engine, system, library, restaurant>>

\* EShop.logout
EShop_logout ==
    /\ eshop' = [eshop EXCEPT
                    !.current_user = NoUser,
                    !.returned = [ok |-> TRUE, message |-> "Logged out successfully"]]
    /\ UNCHANGED <<engine, system, library, restaurant>>

\* user_type of the logged-in user, "" when nobody is logged in
EShop_user_type ==
    IF eshop.current_user = NoUser
    THEN ""
    ELSE eshop.users[eshop.current_user].user_type

\* the loop of EShop.find_product over products from position i on: the
\* position of the first product of that name and seller, or None
RECURSIVE find_product_from(_, _, _, _)
find_product_from(products, name, seller_email, i) ==
    IF i > Len(products)
    THEN None
    ELSE IF products[i].name = name /\ products[i].seller_email = seller_email
         THEN i
         ELSE find_product_from(products, name, seller_email, i + 1)

\* EShop.find_product
find_product(products, name, seller_email) ==
    find_product_from(products, name, seller_email, 1)

\* Order.__init__ of src/shopping.py at second now, with the two fields
\* place_order sets
EShopOrder(customer_email, shipping_address, payment_method, now) ==
    [customer_email |-> customer_email, items |-> <<>>, status |-> "Pending",
     created_at |-> now, updated_at |-> now,
     shipping_address |-> shipping_address, payment_method |-> payment_method]

\* the loop of EShop.place_order with Order.add_item and
\* Product.reduce_stock: the products and the items of the order after the
\* loop, and whether it ran to its end
RECURSIVE EShop_add_items(_, _, _)
EShop_add_items(products, items, added) ==
    IF items = <<>>
    THEN [ok |-> TRUE, products |-> products, items |-> added, message |-> ""]
    ELSE LET quantity == Head(items)[3]
             product == find_product(products, Head(items)[1], Head(items)[2])
         IN  IF product = None \/ products[product].stock <= 0
             THEN [ok |-> FALSE, products |-> products, items |-> added,
                   message |-> "is not available"]
             ELSE IF products[product].stock < quantity
             THEN [ok |-> FALSE, products |-> products, items |-> added,
                   message |-> "Failed to add"]
             ELSE EShop_add_items(
                      [products EXCEPT ![product].stock = @ - quantity],
                      Tail(items),
                      Append(added, [product |-> product, quantity |-> quantity]))

\* EShop.place_order
EShop_place_order(items, shipping_address, payment_method) ==
    IF EShop_user_type # "Customer"
    THEN EShop_returns(FALSE, "Customer login required")
    ELSE /\ LET order == EShopOrder(eshop.current_user, shipping_address,
                                    payment_method, eshop.now)
                loop == EShop_add_items(eshop.products, items, <<>>)
                orders == (eshop.now :> [order EXCEPT !.items = loop.items])
                              @@ eshop.orders
            IN  IF loop.ok
                THEN eshop' = [eshop EXCEPT
                         !.products = loop.products,
                         !.orders = orders,
                         !.eshop_data = EShop_save_data(loop.products, orders),
                         !.returned = [ok |-> TRUE,
                                       message |-> "Order placed successfully!"]]
                ELSE eshop' = [eshop EXCEPT
                         !.products = loop.products,
                         !.returned = [ok |-> FALSE, message |-> loop.message]]
         /\ UNCHANGED <<engine, system, library, restaurant>>

\* seller_products_in_order of EShop.update_order_status: a product of the
\* logged-in user is among the items of the order
seller_products_in_order(order_id) ==
    \E i \in 1..Len(eshop.orders[order_id].items) :
        eshop.products[eshop.orders[order_id].items[i].product].seller_email
            = eshop.current_user

\* EShop.update_order_status
EShop_update_order_status(order_id, new_status) ==
    IF eshop.current_user = NoUser
    THEN EShop_returns(FALSE, "Login required")
    ELSE IF order_id \notin DOMAIN eshop.orders
    THEN EShop_returns(FALSE, "Order not found")
    ELSE IF EShop_user_type = "Seller" /\ ~seller_products_in_order(order_id)
    THEN EShop_returns(FALSE, "You don't have products in this order")
    ELSE IF new_status \notin EShopOrderStatus
    THEN EShop_returns(FALSE, "Invalid order status")
    ELSE /\ LET orders == [eshop.orders EXCEPT
                              ![order_id].status = new_status,
                              ![order_id].updated_at = eshop.now]
            IN  eshop' = [eshop EXCEPT
                             !.orders = orders,
                             !.eshop_data = EShop_save_data(eshop.products, orders),
                             !.returned = [ok |-> TRUE,
                                           message |-> "Order status updated"]]
         /\ UNCHANGED <<engine, system, library, restaurant>>

EShopNext ==
    \/ EShop_tick
    \/ EShop_load_data
    \/ \E email \in DOMAIN EShopUsers \cup {"nobody@mail.com"}, password \in Passwords :
          EShop_login(email, password)
    \/ EShop_logout
    \/ \E items \in EShopItems : EShop_place_order(items, "12 Lake Road", "Card")
    \/ \E order_id \in 1..MaxSeconds, new_status \in EShopStatuses :
          EShop_update_order_status(order_id, new_status)

SpecEShop == EShopInit /\ [][EShopNext]_vars

\* C29: in the e-shop, update_order_status changes an order's status only
\* when the logged-in user is a seller with at least one product in that
\* order: for every other caller (nobody logged in, a customer, a seller
\* with no product in the order) it returns failure and leaves the order's
\* status as it was.
C29_OnlyTheOrdersSellersUpdate ==
    [][\A order_id \in DOMAIN eshop.orders : \A new_status \in EShopStatuses :
          (/\ EShop_update_order_status(order_id, new_status)
           /\ ~(EShop_user_type = "Seller" /\ seller_products_in_order(order_id)))
              => /\ ~eshop'.returned.ok
                 /\ eshop'.orders[order_id].status = eshop.orders[order_id].status
      ]_vars

\* C30: in the e-shop, a place_order call that returns failure leaves the
\* state as it was before the call: the stock of every product is as
\* before, the products listed earlier in the same request among them, and
\* no order is stored.
C30_FailedOrderChangesNothing ==
    [][\A items \in EShopItems :
          (EShop_place_order(items, "12 Lake Road", "Card") /\ ~eshop'.returned.ok)
              => /\ \A p \in 1..Len(eshop.products) :
                       eshop'.products[p].stock = eshop.products[p].stock
                 /\ eshop'.orders = eshop.orders
      ]_vars

====
